---- MODULE Spec2Model ----
(***************************************************************************)
(* Model of the Bridge client (lib/bridge-client/index.js, lib/utils.js):  *)
(* construction of the client configuration (_checkOptions), the request   *)
(* authentication step (_authenticate) and the endpoint wrappers that      *)
(* route every API call through it.                                        *)
(*                                                                         *)
(* JavaScript objects are functions from property names to values; a      *)
(* property is present iff its name is in the DOMAIN.  The value          *)
(* `undefined` is the string Undefined.  Objects whose key order matters   *)
(* (query and body parameters) are sequences of <<key, value>> pairs in    *)
(* insertion order.  index.js uses `merge`, `querystring` and              *)
(* `self._logger` without binding them; they are modelled as the npm       *)
(* `merge` package, Node's `querystring` module and a logger whose debug() *)
(* only writes a log line.                                                 *)
(***************************************************************************)
EXTENDS Integers, Sequences, FiniteSets, TLC

VARIABLES
    _options,   \* this._options: the client configuration
    ctor,       \* the constructor's inputs: uri, options, process.env.STORJ_BRIDGE
    call,       \* the most recent _authenticate invocation, as its caller sees it
    inflight    \* requests handed to the HTTP transport, not yet completed

vars == <<_options, ctor, call, inflight>>

\* Number of requests the transport holds before one completes.
MaxInFlight == 1

(***************************************************************************)
(* JavaScript values                                                       *)
(***************************************************************************)
Undefined == "<undefined>"

EmptyObject == [k \in {} |-> Undefined]

Has(o, k) == k \in DOMAIN o

Put(o, k, v) == [x \in (DOMAIN o) \cup {k} |-> IF x = k THEN v ELSE o[x]]

\* a || b on strings-or-undefined
Or(a, b) == IF a = Undefined THEN b ELSE a

\* String(x) as used by + and by Array.prototype.join
Str(x) == IF x = Undefined THEN "undefined" ELSE x

RECURSIVE join(_, _)
\* Array.prototype.join: undefined elements are rendered as the empty string
join(arr, sep) ==
    IF arr = <<>> THEN ""
    ELSE LET head == IF arr[1] = Undefined THEN "" ELSE arr[1]
         IN  IF Len(arr) = 1 THEN head
             ELSE head \o sep \o join(Tail(arr), sep)

(***************************************************************************)
(* lib/utils.js                                                            *)
(***************************************************************************)
Passwords == {"secret", "hunter2"}

\* crypto.createHash('sha256').update(input, 'utf8').digest('hex'), on the
\* passwords of the model and on their digests
sha256(input) ==
    CASE input = "secret" ->
           "2bb80d537b1da3e38bd30361aa855686bde0eacd7162fef6a25fe97bf527a25b"
      [] input = "hunter2" ->
           "f52fbd32b2b3b86ff88ef6c490628285f482af15ddcb29541f94bcf526a3f6c7"
      [] input = "2bb80d537b1da3e38bd30361aa855686bde0eacd7162fef6a25fe97bf527a25b" ->
           "3d91b58504a6cc3a159005ee7b16c7ae503ca6ac2a6a3c893837083c236b864a"
      [] input = "f52fbd32b2b3b86ff88ef6c490628285f482af15ddcb29541f94bcf526a3f6c7" ->
           "b6ff43379b25b8ee6a4fcb150c0924842cf00965925494c59fe1655304592d22"

(***************************************************************************)
(* Serializers used by the signing path                                    *)
(***************************************************************************)
\* querystring.escape on the values of the model
escape(v) ==
    CASE v = "a@b.com" -> "a%40b.com"
      [] v = "http://r" -> "http%3A%2F%2Fr"
      [] OTHER -> v

RECURSIVE qsPairs(_)
qsPairs(obj) ==
    IF obj = <<>> THEN <<>>
    ELSE LET k == obj[1][1]
             v == obj[1][2]
         IN  <<escape(k) \o "=" \o (IF v = Undefined THEN "" ELSE escape(v))>>
                 \o qsPairs(Tail(obj))

\* querystring.stringify(obj): key=value pairs joined by &, values escaped
querystring_stringify(obj) == join(qsPairs(obj), "&")

RECURSIVE jsonPairs(_)
jsonPairs(obj) ==
    IF obj = <<>> THEN <<>>
    ELSE LET k == obj[1][1]
             v == obj[1][2]
         IN  (IF v = Undefined THEN <<>>
              ELSE <<"\"" \o k \o "\":\"" \o v \o "\"">>)
                 \o jsonPairs(Tail(obj))

\* JSON.stringify(obj) of a flat object of strings: undefined members are left out
JSON_stringify(obj) == "{" \o join(jsonPairs(obj), ",") \o "}"

(***************************************************************************)
(* Construction: BridgeClient(uri, options)                                *)
(***************************************************************************)
\* BridgeClient.DEFAULTS
DEFAULTS == [baseURI |-> "https://api.storj.io"]

\* merge(base, obj) of the npm merge package: every enumerable property of
\* obj, one holding undefined included, is assigned onto base
merge(base, obj) ==
    [k \in (DOMAIN base) \cup (DOMAIN obj) |->
        IF k \in DOMAIN obj THEN obj[k] ELSE base[k]]

\* options is <<>> when the argument is omitted and <<o>> when object o is passed;
\* STORJ_BRIDGE is process.env.STORJ_BRIDGE
_checkOptions(uri, options, STORJ_BRIDGE) ==
    LET o1 == IF options = <<>>
              THEN [baseURI |-> Or(uri, Or(STORJ_BRIDGE, DEFAULTS.baseURI))]
              ELSE options[1]
        o2 == Put(o1, "baseURI",
                  Or(IF Has(o1, "baseURI") THEN o1.baseURI ELSE Undefined, uri))
    IN  merge(DEFAULTS, o2)

\* new BridgeClient(uri, options)
BridgeClient(uri, options, STORJ_BRIDGE) == _checkOptions(uri, options, STORJ_BRIDGE)

(***************************************************************************)
(* The signer capability held in options.keyPair                          *)
(***************************************************************************)
\* keyPair.sign(contract, {compact: false}) of a working signer
sign(keyPair, contract) == "sig[" \o keyPair.privateKey \o "](" \o contract \o ")"

(***************************************************************************)
(* _authenticate                                                           *)
(***************************************************************************)
\* _authenticate returned opts: the argument object itself, now holding opts
Returned(self, opts, signed) ==
    [self |-> self, opts |-> opts, outcome |-> "returned", error |-> "",
     retIsArg |-> TRUE, ret |-> opts, signed |-> signed]

\* an exception left _authenticate; the argument object holds opts
Thrown(self, opts, error, signed) ==
    [self |-> self, opts |-> opts, outcome |-> "threw", error |-> error,
     retIsArg |-> FALSE, ret |-> EmptyObject, signed |-> signed]

\* variant: DELETE is left out of the query-string methods
payload_getOnly(opts) ==
    IF opts.method \in {"GET"}
    THEN IF Has(opts, "qs") THEN querystring_stringify(opts.qs) ELSE ""
    ELSE IF Has(opts, "json") THEN JSON_stringify(opts.json) ELSE Undefined

payload(opts) ==
    IF opts.method \in {"GET", "DELETE"}
    THEN IF Has(opts, "qs") THEN querystring_stringify(opts.qs) ELSE ""
    ELSE IF Has(opts, "json") THEN JSON_stringify(opts.json) ELSE Undefined

contract(opts) == join(<<opts.method, opts.uri, payload(opts)>>, "\n")

\* variant: a failing signer is caught and the request goes out unsigned
keyPairAuth_swallowsSignError(self, opts) ==
    LET c  == contract(opts)
        kp == self.keyPair
        h0 == IF Has(opts, "headers") THEN opts.headers ELSE EmptyObject
        o1 == Put(opts, "headers", h0)
        o2 == Put(opts, "headers", Put(h0, "x-pubkey", kp.publicKey))
        o3 == Put(opts, "headers",
                  Put(o2.headers, "x-signature", sign(kp, c)))
    IN  IF kp.getPublicKey = "throws" THEN Thrown(self, o1, "getPublicKey", <<>>)
        ELSE IF kp.sign = "throws" THEN Returned(self, o2, <<c>>)
        ELSE Returned(self, o3, <<c>>)

\* variant: the signed payload is also folded into the request's uri
keyPairAuth_rewritesUri(self, opts) ==
    LET c  == contract(opts)
        kp == self.keyPair
        h0 == IF Has(opts, "headers") THEN opts.headers ELSE EmptyObject
        o1 == Put(opts, "headers", h0)
        o2 == Put(opts, "headers", Put(h0, "x-pubkey", kp.publicKey))
        o3 == Put(Put(opts, "uri", opts.uri \o "?" \o Str(payload(opts))), "headers",
                  Put(o2.headers, "x-signature", sign(kp, c)))
    IN  IF kp.getPublicKey = "throws" THEN Thrown(self, o1, "getPublicKey", <<>>)
        ELSE IF kp.sign = "throws" THEN Thrown(self, o2, "sign", <<c>>)
        ELSE Returned(self, o3, <<c>>)

\* the keyPair branch (lines 80-97); the logger call of lines 86-91 changes nothing
keyPairAuth(self, opts) ==
    LET c  == contract(opts)
        kp == self.keyPair
        h0 == IF Has(opts, "headers") THEN opts.headers ELSE EmptyObject
        o1 == Put(opts, "headers", h0)
        o2 == Put(opts, "headers", Put(h0, "x-pubkey", kp.publicKey))
        o3 == Put(opts, "headers",
                  Put(o2.headers, "x-signature", sign(kp, c)))
    IN  IF kp.getPublicKey = "throws" THEN Thrown(self, o1, "getPublicKey", <<>>)
        ELSE IF kp.sign = "throws" THEN Thrown(self, o2, "sign", <<c>>)
        ELSE Returned(self, o3, <<c>>)

\* variant: the configured password is sent as it is
basicAuth_plaintext(self, opts) ==
    Returned(self,
             Put(opts, "auth", [user |-> self.basicAuth.email,
                                pass |-> self.basicAuth.password]),
             <<>>)

\* the basicAuth branch (lines 98-103)
basicAuth(self, opts) ==
    Returned(self,
             Put(opts, "auth", [user |-> self.basicAuth.email,
                                pass |-> sha256(self.basicAuth.password)]),
             <<>>)

\* variant: the basicAuth test is an independent if, not an else-if
_authenticate_bothBranches(self, opts) ==
    LET r == IF Has(self, "keyPair") THEN keyPairAuth(self, opts)
             ELSE Returned(self, opts, <<>>)
    IN  IF Has(self, "basicAuth") /\ r.outcome = "returned"
        THEN [basicAuth(self, r.opts) EXCEPT !.signed = r.signed]
        ELSE r

\* variant: the request is copied and the copy is authenticated and returned
_authenticate_onCopy(self, opts) ==
    LET r == IF Has(self, "keyPair") THEN keyPairAuth(self, opts)
             ELSE IF Has(self, "basicAuth") THEN basicAuth(self, opts)
             ELSE Returned(self, opts, <<>>)
    IN  [r EXCEPT !.opts = opts, !.retIsArg = FALSE]

\* variant: the digest computed for basic-auth is stored back into the configuration
_authenticate_cachesDigest(self, opts) ==
    IF Has(self, "keyPair") THEN keyPairAuth(self, opts)
    ELSE IF Has(self, "basicAuth")
    THEN [basicAuth(self, opts) EXCEPT
            !.self = Put(self, "basicAuth",
                         [email |-> self.basicAuth.email,
                          password |-> sha256(self.basicAuth.password)])]
    ELSE Returned(self, opts, <<>>)

_authenticate(self, opts) ==
    IF Has(self, "keyPair") THEN keyPairAuth(self, opts)
    ELSE IF Has(self, "basicAuth") THEN basicAuth(self, opts)
    ELSE Returned(self, opts, <<>>)

(***************************************************************************)
(* Inputs of the model                                                     *)
(***************************************************************************)
URIs == {Undefined, "http://u"}

EnvValues == {Undefined, "http://e"}

KeyPairs ==
    {[publicKey |-> "02ab", privateKey |-> "k1", getPublicKey |-> g, sign |-> s] :
        <<g, s>> \in {<<"ok", "ok">>, <<"ok", "throws">>, <<"throws", "ok">>}}

BasicAuths == {[email |-> "a@b.com", password |-> p] : p \in Passwords}

WithKeyPair(S) == S \cup {Put(o, "keyPair", kp) : o \in S, kp \in KeyPairs}

WithBasicAuth(S) == S \cup {Put(o, "basicAuth", ba) : o \in S, ba \in BasicAuths}

\* the options objects a caller passes to the constructor
OptionObjects == WithBasicAuth(WithKeyPair({EmptyObject, [baseURI |-> "http://o"]}))

OptionArgs == {<<>>} \cup {<<o>> : o \in OptionObjects}

Methods == {"GET", "POST", "PATCH", "DELETE"}

QueryObjects == {<< <<"a", "1">> >>}

BodyObjects == {<< <<"email", "a@b.com">>, <<"redirect", Undefined>> >>}

WithQs(S) == S \cup {Put(o, "qs", q) : o \in S, q \in QueryObjects}

WithJson(S) == S \cup {Put(o, "json", b) : o \in S, b \in BodyObjects}

WithHeaders(S) == S \cup {Put(o, "headers", [accept |-> "json"]) : o \in S}

\* the request descriptions handed to _authenticate directly
Requests ==
    WithHeaders(WithJson(WithQs(
        {[method |-> m, uri |-> "https://api.storj.io/x"] : m \in Methods \cup {"PUT"}})))

(***************************************************************************)
(* State machine                                                           *)
(***************************************************************************)
NoCall ==
    [api |-> "", input |-> EmptyObject, opts |-> EmptyObject, outcome |-> "none",
     error |-> "", retIsArg |-> FALSE, ret |-> EmptyObject, signed |-> <<>>,
     dispatched |-> FALSE]

\* what the caller of _authenticate observes: r is _authenticate's result on input
Call(api, input, r, dispatched) ==
    [api |-> api, input |-> input, opts |-> r.opts, outcome |-> r.outcome,
     error |-> r.error, retIsArg |-> r.retIsArg, ret |-> r.ret,
     signed |-> r.signed, dispatched |-> dispatched]

Init ==
    /\ ctor \in [uri : URIs, options : OptionArgs, STORJ_BRIDGE : EnvValues]
    /\ _options = BridgeClient(ctor.uri, ctor.options, ctor.STORJ_BRIDGE)
    /\ call = NoCall
    /\ inflight = 0

\* client._authenticate(opts), called on its own
Authenticate(opts) ==
    LET r == _authenticate(_options, opts)
    IN  /\ _options' = r.self
        /\ call' = Call("_authenticate", opts, r, FALSE)
        /\ UNCHANGED <<ctor, inflight>>

\* this._request(method, path, params, callback): build the request description,
\* authenticate it, hand it to the HTTP transport
_request(api, method, path, params) ==
    LET base == [method |-> method, uri |-> Str(_options.baseURI) \o path]
        opts == IF method \in {"GET", "DELETE"}
                THEN Put(base, "qs", params)
                ELSE Put(base, "json", params)
        r    == _authenticate(_options, opts)
        send == r.outcome = "returned"
    IN  /\ inflight < MaxInFlight
        /\ _options' = r.self
        /\ call' = Call(api, opts, r, send)
        /\ inflight' = IF send THEN inflight + 1 ELSE inflight

\* the transport completes a request and invokes its callback
Complete ==
    /\ inflight > 0
    /\ inflight' = inflight - 1
    /\ UNCHANGED <<_options, ctor, call>>

Emails == {"a@b.com"}

Redirects == {Undefined, "http://r"}

PubKeys == {"02ab"}

BucketIds == {"b1"}

FileIds == {"f1"}

Operations == {"PUSH", "PULL"}

BucketData == {<<>>, << <<"name", "x">> >>}

getInfo ==
    /\ _request("getInfo", "GET", "/", <<>>)
    /\ UNCHANGED ctor

createUser ==
    \E email \in Emails, password \in Passwords, redirect \in Redirects,
       pubkey \in PubKeys \cup {Undefined} :
        /\ _request("createUser", "POST", "/users",
                    << <<"email", email>>, <<"password", sha256(password)>>,
                       <<"redirect", redirect>>, <<"pubkey", pubkey>> >>)
        /\ UNCHANGED ctor

destroyUser ==
    \E email \in Emails, redirect \in Redirects :
        /\ _request("destroyUser", "DELETE", "/users/" \o email,
                    << <<"redirect", redirect>> >>)
        /\ UNCHANGED ctor

resetPassword ==
    \E email \in Emails, password \in Passwords, redirect \in Redirects :
        /\ _request("resetPassword", "PATCH", "/users/" \o email,
                    << <<"password", sha256(password)>>, <<"redirect", redirect>> >>)
        /\ UNCHANGED ctor

getPublicKeys ==
    /\ _request("getPublicKeys", "GET", "/keys", <<>>)
    /\ UNCHANGED ctor

addPublicKey ==
    \E pubkey \in PubKeys :
        /\ _request("addPublicKey", "POST", "/keys", << <<"key", pubkey>> >>)
        /\ UNCHANGED ctor

destroyPublicKey ==
    \E pubkey \in PubKeys :
        /\ _request("destroyPublicKey", "DELETE", "/keys/" \o pubkey, <<>>)
        /\ UNCHANGED ctor

getBuckets ==
    /\ _request("getBuckets", "GET", "/buckets", <<>>)
    /\ UNCHANGED ctor

getBucketById ==
    \E id \in BucketIds :
        /\ _request("getBucketById", "GET", "/buckets/" \o id, <<>>)
        /\ UNCHANGED ctor

createBucket ==
    \E data \in BucketData :
        /\ _request("createBucket", "POST", "/buckets", data)
        /\ UNCHANGED ctor

destroyBucketById ==
    \E id \in BucketIds :
        /\ _request("destroyBucketById", "DELETE", "/buckets/" \o id, <<>>)
        /\ UNCHANGED ctor

updateBucketById ==
    \E id \in BucketIds, updates \in BucketData :
        /\ _request("updateBucketById", "PATCH", "/buckets/" \o id, updates)
        /\ UNCHANGED ctor

listFilesInBucket ==
    \E id \in BucketIds :
        /\ _request("listFilesInBucket", "GET", "/buckets/" \o id \o "/files", <<>>)
        /\ UNCHANGED ctor

createToken ==
    \E id \in BucketIds, operation \in Operations :
        /\ _request("createToken", "POST", "/buckets/" \o id \o "/tokens",
                    << <<"operation", operation>> >>)
        /\ UNCHANGED ctor

removeFileFromBucket ==
    \E id \in BucketIds, file \in FileIds :
        /\ _request("removeFileFromBucket", "DELETE",
                    "/buckets/" \o id \o "/files/" \o file, <<>>)
        /\ UNCHANGED ctor

Next ==
    \/ \E opts \in Requests : Authenticate(opts)
    \/ getInfo
    \/ createUser
    \/ destroyUser
    \/ resetPassword
    \/ getPublicKeys
    \/ addPublicKey
    \/ destroyPublicKey
    \/ getBuckets
    \/ getBucketById
    \/ createBucket
    \/ destroyBucketById
    \/ updateBucketById
    \/ listFilesInBucket
    \/ createToken
    \/ removeFileFromBucket
    \/ Complete

Spec == Init /\ [][Next]_vars

(***************************************************************************)
(* Properties                                                              *)
(***************************************************************************)
Called == call.outcome # "none"

HasKeyPair == Has(_options, "keyPair")

HasBasicAuth == Has(_options, "basicAuth")

HeadersOf(o) == IF Has(o, "headers") THEN o.headers ELSE EmptyObject

\* the header names the call set or changed on the request object
AttachedHeaders ==
    {h \in DOMAIN HeadersOf(call.opts) :
        \/ h \notin DOMAIN HeadersOf(call.input)
        \/ HeadersOf(call.opts)[h] # HeadersOf(call.input)[h]}

\* the call put a basic-auth field on the request object
AttachedAuth == Has(call.opts, "auth") /\ ~Has(call.input, "auth")

\* C1: the mechanism attached to a request is decided by the configured credential
\* alone and is never both: a key pair attaches only headers (x-pubkey and x-signature
\* on every returned request) and never the auth field, also when basic-auth is
\* configured too; basic-auth without a key pair attaches only auth {user, pass};
\* no credential attaches nothing.
C1_OneMechanismByCredential ==
    Called =>
        /\ ~(AttachedAuth /\ AttachedHeaders # {})
        /\ HasKeyPair =>
              /\ ~AttachedAuth
              /\ AttachedHeaders \subseteq {"x-pubkey", "x-signature"}
              /\ call.outcome = "returned" =>
                    /\ AttachedHeaders = {"x-pubkey", "x-signature"}
                    /\ ~Has(call.ret, "auth")
        /\ (~HasKeyPair /\ HasBasicAuth) =>
              /\ call.outcome = "returned"
              /\ AttachedAuth
              /\ DOMAIN call.ret.auth = {"user", "pass"}
              /\ AttachedHeaders = {}
              /\ HeadersOf(call.ret) = HeadersOf(call.input)
        /\ (~HasKeyPair /\ ~HasBasicAuth) =>
              /\ call.outcome = "returned"
              /\ call.ret = call.input

\* both credentials configured, and a request came back signed
C1_Witness ==
    /\ HasKeyPair /\ HasBasicAuth
    /\ call.outcome = "returned"
    /\ AttachedHeaders = {"x-pubkey", "x-signature"}

\* the payload the signing contract is to carry for the four methods
ExpectedPayload(o) ==
    IF o.method \in {"GET", "DELETE"}
    THEN IF Has(o, "qs") THEN querystring_stringify(o.qs) ELSE ""
    ELSE JSON_stringify(o.json)

\* C2: with a key pair, for GET, DELETE, POST and PATCH the one string handed to the
\* signer is method + "\n" + uri + "\n" + payload, payload being the query string of
\* qs for GET and DELETE and the JSON text of json for POST and PATCH; x-signature is
\* the signer's result on it and x-pubkey the key pair's public key.
C2_SigningContract ==
    (/\ Called /\ HasKeyPair
     /\ _options.keyPair.getPublicKey = "ok"
     /\ call.input.method \in Methods
     /\ call.input.method \in {"POST", "PATCH"} => Has(call.input, "json")) =>
        LET expected == call.input.method \o "\n" \o call.input.uri \o "\n"
                            \o ExpectedPayload(call.input)
        IN  /\ call.signed = <<expected>>
            /\ call.outcome = "returned" =>
                  /\ call.ret.headers["x-signature"] = sign(_options.keyPair, expected)
                  /\ call.ret.headers["x-pubkey"] = _options.keyPair.publicKey
            /\ (call.input.method = "GET" /\ Has(call.input, "qs")
                    /\ call.input.qs = << <<"a", "1">> >>) =>
                  call.signed = <<"GET\n" \o call.input.uri \o "\na=1">>

\* a DELETE with a query was signed and returned
C2_Witness ==
    /\ HasKeyPair
    /\ call.outcome = "returned"
    /\ call.input.method = "DELETE"
    /\ Has(call.input, "qs") /\ call.input.qs # <<>>
    /\ Len(call.signed) = 1

\* C3: with basic-auth and no key pair every call returns a request whose auth.user is
\* the configured email and whose auth.pass is SHA-256 applied once to the configured
\* password: not the password itself and not the digest of the digest.
C3_BasicAuthDigestOnce ==
    (Called /\ ~HasKeyPair /\ HasBasicAuth) =>
        /\ call.outcome = "returned"
        /\ call.ret.auth.user = _options.basicAuth.email
        /\ call.ret.auth.pass = sha256(_options.basicAuth.password)
        /\ call.ret.auth.pass # _options.basicAuth.password
        /\ call.ret.auth.pass # sha256(sha256(_options.basicAuth.password))
        /\ _options.basicAuth.password = "secret" =>
              call.ret.auth.pass =
                  "2bb80d537b1da3e38bd30361aa855686bde0eacd7162fef6a25fe97bf527a25b"

\* a request was authenticated with the basic-auth credential of password "secret"
C3_Witness ==
    /\ ~HasKeyPair /\ HasBasicAuth
    /\ _options.basicAuth.password = "secret"
    /\ call.outcome = "returned"
    /\ Has(call.ret, "auth")

\* C4, as stated: _authenticate leaves the request object it is passed unchanged,
\* and what it attaches is returned on a separate value.
C4_InputLeftUnchanged ==
    (Called /\ call.outcome = "returned") =>
        /\ call.opts = call.input
        /\ (HasKeyPair \/ HasBasicAuth) => ~call.retIsArg

\* C4, amended: _authenticate returns the very object it was passed, holding what the
\* call made of it; that object is unchanged when no credential is configured, and
\* with a key pair or basic-auth the headers or the auth field were added to it in
\* place.
C4_AugmentsInPlace ==
    (Called /\ call.outcome = "returned") =>
        /\ call.retIsArg
        /\ call.ret = call.opts
        /\ (~HasKeyPair /\ ~HasBasicAuth) => call.opts = call.input
        /\ HasKeyPair =>
              /\ call.opts # call.input
              /\ {"x-pubkey", "x-signature"} \subseteq DOMAIN call.opts.headers
        /\ (~HasKeyPair /\ HasBasicAuth) =>
              /\ call.opts # call.input
              /\ Has(call.opts, "auth")

\* a request passed without headers came back as the same object, now with headers
C4_Witness ==
    /\ call.outcome = "returned"
    /\ call.retIsArg
    /\ ~Has(call.input, "headers")
    /\ Has(call.opts, "headers")

SemanticFields == {"method", "uri", "qs", "json"}

\* C5: a returned request has the method, uri, qs and json of the request passed in,
\* each present exactly when it was present and with the same value.
C5_SemanticContentKept ==
    (Called /\ call.outcome = "returned") =>
        \A f \in SemanticFields :
            /\ Has(call.ret, f) <=> Has(call.input, f)
            /\ Has(call.input, f) => call.ret[f] = call.input[f]

\* a signed POST whose body is in place
C5_Witness ==
    /\ HasKeyPair
    /\ call.outcome = "returned"
    /\ call.input.method = "POST"
    /\ Has(call.ret, "json") /\ call.ret.json # <<>>
    /\ "x-signature" \in DOMAIN call.ret.headers

\* C6: a request whose method is none of GET, POST, PATCH, DELETE makes _authenticate
\* fail with UnsupportedMethod: nothing is signed, nothing is attached and nothing is
\* dispatched.
C6_UnsupportedMethodFails ==
    (Called /\ call.input.method \notin Methods) =>
        /\ call.outcome = "threw"
        /\ call.error = "UnsupportedMethod"
        /\ call.signed = <<>>
        /\ call.opts = call.input
        /\ ~call.dispatched

\* C7: with a key pair whose sign operation fails, every call fails with the signer's
\* error, returns nothing, and no request reaches the HTTP transport.
C7_SigningFailureSurfaces ==
    (/\ HasKeyPair
     /\ _options.keyPair.getPublicKey = "ok"
     /\ _options.keyPair.sign = "throws") =>
        /\ inflight = 0
        /\ Called =>
              /\ call.outcome = "threw"
              /\ call.error = "sign"
              /\ ~call.retIsArg
              /\ ~call.dispatched

\* an API call whose signature could not be computed
C7_Witness ==
    /\ HasKeyPair
    /\ _options.keyPair.sign = "throws"
    /\ call.api = "createBucket"
    /\ call.outcome = "threw"
    /\ call.error = "sign"
    /\ Len(call.signed) = 1

FirstPresent ==
    IF ctor.options # <<>> /\ Has(ctor.options[1], "baseURI")
    THEN ctor.options[1].baseURI
    ELSE IF ctor.uri # Undefined THEN ctor.uri
    ELSE IF ctor.STORJ_BRIDGE # Undefined THEN ctor.STORJ_BRIDGE
    ELSE "https://api.storj.io"

\* C9: the resolved baseURI is the first present of options.baseURI, the uri
\* argument, the environment value and the default, and is always defined.
C9_BaseURIPrecedence ==
    /\ _options.baseURI = FirstPresent
    /\ _options.baseURI # Undefined

\* C10: with a key pair, however a call ended, the request object carries x-pubkey
\* exactly when it carries x-signature.
C10_SignatureHeadersAtomic ==
    (Called /\ HasKeyPair) =>
        ("x-pubkey" \in DOMAIN HeadersOf(call.opts)
            <=> "x-signature" \in DOMAIN HeadersOf(call.opts))

====
